---- MODULE Spec2Model ----
(***************************************************************************)
(* Model of scenariogeneration/xodr/lane_def.py: the LaneDef helper class, *)
(* the timeline expander _create_lane_lists and the lane-section builder   *)
(* and lane linker of create_lanes_merge_split.                            *)
(*                                                                         *)
(* Positions along the road (s coordinates) and widths are integers.       *)
(* A Python Optional[int] is a sequence: << >> is None, <<v>> is the       *)
(* integer v.  A Python list is a sequence; Python's 0-based index i is    *)
(* the sequence index i + 1.  A raised exception is recorded in exc and    *)
(* the call stops in pc = "raised".                                        *)
(***************************************************************************)
EXTENDS Integers, Sequences, FiniteSets, TLC

\* ---------------------------------------------------------------- bounds
MaxS == 3          \* largest s coordinate an argument may name
MaxLanes == 2      \* largest lane count of one side
MaxDefs == 2       \* largest number of LaneDef objects handed to one call
MaxBuilds == 2     \* number of successive calls with the same objects
LaneWidth == 3     \* the lane_width argument

None == << >>
Some(v) == <<v>>
IsNone(o) == o = << >>
Val(o) == o[1]

Max(a, b) == IF a >= b THEN a ELSE b
Min(a, b) == IF a <= b THEN a ELSE b
Abs(a) == IF a < 0 THEN 0 - a ELSE a

\* the road_length argument: positions up to MaxS exist, so that a LaneDef
\* can reach past the end of the road
RoadLength == MaxS - 1

\* [default_lane_width for x in range(n)]
Repeat(v, n) == [x \in 1..n |-> v]

\* list.insert(i, v) for i >= 0: an index past the end appends
InsertAt(l, i, v) ==
    LET k == Min(i, Len(l))
    IN  SubSeq(l, 1, k) \o <<v>> \o SubSeq(l, k + 1, Len(l))

\* ---------------------------------------------------------------- LaneDef
\* LaneDef.__init__
LaneDefInit(s_start, s_end, n_lanes_start, n_lanes_end, sub_lane, lane_start_widths, lane_end_widths) ==
    [s_start |-> s_start, s_end |-> s_end,
     n_lanes_start |-> n_lanes_start, n_lanes_end |-> n_lanes_end,
     sub_lane |-> sub_lane,
     lane_start_widths |-> lane_start_widths,
     lane_end_widths |-> IF lane_end_widths = << >>
                         THEN lane_start_widths ELSE lane_end_widths]

\* Python truth value of self.sub_lane: None and 0 are false
SubLaneSet(d) == ~IsNone(d.sub_lane) /\ Val(d.sub_lane) # 0

\* LaneDef._adjust_lane_widths
AdjustLaneWidths(d) ==
    IF ~SubLaneSet(d) THEN d
    ELSE IF d.lane_end_widths # << >>
            /\ Len(d.lane_end_widths) < d.n_lanes_start
         THEN [d EXCEPT !.lane_end_widths =
                   InsertAt(@, Abs(Val(d.sub_lane)) - 1, 0)]
    ELSE IF d.lane_start_widths # << >>
            /\ Len(d.lane_start_widths) < d.n_lanes_end
         THEN [d EXCEPT !.lane_start_widths =
                   InsertAt(@, Abs(Val(d.sub_lane)) - 1, 0)]
    ELSE d

\* _check_lane_widths with a slip: the end list gets n_lanes_start entries
CheckLaneWidthsStartCount(lane, default_lane_width) ==
    [lane EXCEPT
       !.lane_start_widths =
           IF @ = << >> THEN Repeat(default_lane_width, lane.n_lanes_start)
           ELSE @,
       !.lane_end_widths =
           IF @ = << >> THEN Repeat(default_lane_width, lane.n_lanes_start)
           ELSE @]

\* _create_lane_lists._check_lane_widths
CheckLaneWidths(lane, default_lane_width) ==
    [lane EXCEPT
       !.lane_start_widths =
           IF @ = << >> THEN Repeat(default_lane_width, lane.n_lanes_start)
           ELSE @,
       !.lane_end_widths =
           IF @ = << >> THEN Repeat(default_lane_width, lane.n_lanes_end)
           ELSE @]

\* ---------------------------------------------------------------- inputs
\* Explicit width lists a caller passes: every entry differs from every
\* other, from lane_width, from lane_width_end and from 0, so that each
\* width of the result can be traced to where it came from.
UserStartWidths(n) == [k \in 1..n |-> 10 + k]
UserEndWidths(n) == [k \in 1..n |-> 20 + k]

\* the width-list arguments of LaneDef(...): none, start only, end only, both
WidthArgs(n_lanes_start, n_lanes_end) ==
    {<<sw, ew>> \in
        {<< >>, UserStartWidths(n_lanes_start)}
            \X {<< >>, UserEndWidths(n_lanes_end)} : TRUE}

\* the lane counts of one LaneDef: constant, one lane less, one lane more
LaneCounts ==
    {c \in (0..MaxLanes) \X (0..MaxLanes) : Abs(c[1] - c[2]) <= 1}

\* the documented sub_lane of a side: counted from the centre, negative on
\* the right and positive on the left, None where the count does not change
GoodSubLanes(side, c) ==
    IF c[1] = c[2] THEN {None}
    ELSE {Some(IF side = "right" THEN 0 - p ELSE p) : p \in 1..Max(c[1], c[2])}

\* every other sub_lane of a count change: None, 0, the other side's sign,
\* a magnitude past the outermost lane
BadSubLanes(side, c) ==
    IF c[1] = c[2] THEN {}
    ELSE ({None} \cup {Some(v) : v \in (0 - (MaxLanes + 1))..(MaxLanes + 1)})
            \ GoodSubLanes(side, c)

InsideRoad == {i \in (0..RoadLength) \X (0..RoadLength) : i[1] < i[2]}
Anywhere == (0..MaxS) \X (0..MaxS)

\* LaneDef objects of one lane with default widths on the intervals I
PlainDefs(I) ==
    {LaneDefInit(i[1], i[2], 1, 1, None, << >>, << >>) : i \in I}

\* LaneDef objects inside the road with a documented sub_lane, default widths
LaneDefs(side) ==
    UNION {{LaneDefInit(i[1], i[2], c[1], c[2], sl, << >>, << >>) :
               i \in InsideRoad, sl \in GoodSubLanes(side, c)} :
           c \in LaneCounts}

\* LaneDef objects inside the road with a documented sub_lane and explicit
\* width lists
WidthDefs(side) ==
    UNION {UNION {{LaneDefInit(i[1], i[2], c[1], c[2], sl, w[1], w[2]) :
                      i \in InsideRoad, sl \in GoodSubLanes(side, c)} :
                  w \in WidthArgs(c[1], c[2]) \ {<<(<< >>), (<< >>)>>}} :
           c \in LaneCounts}

\* LaneDef objects inside the road whose sub_lane is not a documented one
BadSubDefs(side) ==
    UNION {{LaneDefInit(i[1], i[2], c[1], c[2], sl, << >>, << >>) :
               i \in InsideRoad, sl \in BadSubLanes(side, c)} :
           c \in LaneCounts}

\* a list in road order: each LaneDef starts where or after the one before
\* it ended
InOrder(l) == \A k \in 1..(Len(l) - 1) : l[k].s_end <= l[k + 1].s_start

\* a list that keeps the lane count: each LaneDef starts with the lanes the
\* one before it ended with
Continuous(l) ==
    \A k \in 1..(Len(l) - 1) : l[k].n_lanes_end = l[k + 1].n_lanes_start

\* the lists of k objects of F
ListsOf(F, k) == [1..k -> F]

\* the lists of k objects of F in road order that keep the lane count
RECURSIVE RoadListsOf(_, _)
RoadListsOf(F, k) ==
    IF k = 0 THEN {<< >>}
    ELSE UNION {{Append(l, d) :
                    d \in {e \in F : InOrder(Append(l, e))
                                     /\ Continuous(Append(l, e))}} :
                l \in RoadListsOf(F, k - 1)}

\* One side of a call: an int (const set, no list) or a list of LaneDef
IntArg(n) == [defs |-> << >>, const |-> Some(n)]
ListArg(l) == [defs |-> l, const |-> None]

\* a call: <<right argument, left argument>>; `side` gets a and the other
\* side b
CallWith(side, a, b) == IF side = "right" THEN <<a, b>> ELSE <<b, a>>

\* A side of a call that differs in its intervals: k plain objects anywhere
\* (reversed, empty, out of order, overlapping, outside the road); without
\* objects the int 1 or an empty list
AnywhereSide(k) ==
    IF k = 0 THEN {IntArg(1), ListArg(<< >>)}
    ELSE {ListArg(x) : x \in ListsOf(PlainDefs(Anywhere), k)}

\* what the other side of a call is while one side has objects that differ
\* in lane counts, sub_lane or widths: an int, an empty list, or at most
\* `most` plain objects inside the road in road order
OtherSide(most) ==
    {IntArg(n) : n \in 0..MaxLanes}
    \cup UNION {{ListArg(x) : x \in RoadListsOf(PlainDefs(InsideRoad), m)} :
                m \in 0..most}

\* the lane_width_end argument: absent, equal to lane_width, different
LaneWidthEnds == {None, Some(LaneWidth), Some(LaneWidth + 1)}
OtherWidthEnds == {None, Some(LaneWidth + 1)}

\* ---------------------------------------------------------------- state
VARIABLES
    right, left,            \* the LaneDef objects of the two list arguments
    const_right_lanes,      \* the int argument of a side, None for a list
    const_left_lanes,
    lane_width_end,         \* the lane_width_end argument
    builds,                 \* calls of create_lanes_merge_split begun
    before_right,           \* the objects as they were when the call began
    before_left,
    pc,                     \* where the call is
    exc,                    \* the exception that ended it, "" if none
    present_s, r_it, l_it,  \* locals of _create_lane_lists
    iterations,             \* passes through its while loop in this call
    retlanes_right,         \* its result lists: an entry is a reference to
    retlanes_left,          \*   an object of right/left or a new LaneDef
    lanesections,           \* the LaneSection objects built
    links,                  \* the links added to the LaneLinker
    lanes                   \* the Lanes object returned by each call

vars == <<right, left, const_right_lanes, const_left_lanes, lane_width_end,
          builds, before_right, before_left, pc, exc, present_s, r_it, l_it,
          iterations, retlanes_right, retlanes_left, lanesections, links,
          lanes>>

args == <<const_right_lanes, const_left_lanes, lane_width_end>>

\* an entry of retlanes_*: the k-th object of the side's argument list ...
Ref(k) == [ref |-> k]
\* ... or a LaneDef made by _create_lane_lists
New(d) == [ref |-> 0, def |-> d]
\* the LaneDef an entry stands for
Deref(e, objs) == IF e.ref = 0 THEN e.def ELSE objs[e.ref]
right_lane(i) == Deref(retlanes_right[i], right)
left_lane(i) == Deref(retlanes_left[i], left)

\* the state a call begins in: lines 205, 614-622
Begin ==
    /\ pc' = "sweep"
    /\ exc' = ""
    /\ present_s' = 0
    /\ r_it' = 0
    /\ l_it' = 0
    /\ iterations' = 0
    /\ retlanes_right' = << >>
    /\ retlanes_left' = << >>
    /\ lanesections' = << >>
    /\ links' = {}

\* the state in which the first call, with the arguments c = <<right, left>>
\* and lane_width_end, begins
FirstCall(c, end) ==
    /\ right = c[1].defs
    /\ const_right_lanes = c[1].const
    /\ left = c[2].defs
    /\ const_left_lanes = c[2].const
    /\ lane_width_end = end
    /\ builds = 1
    /\ before_right = right
    /\ before_left = left
    /\ pc = "sweep"
    /\ exc = ""
    /\ present_s = 0
    /\ r_it = 0
    /\ l_it = 0
    /\ iterations = 0
    /\ retlanes_right = << >>
    /\ retlanes_left = << >>
    /\ lanesections = << >>
    /\ links = {}
    /\ lanes = << >>

\* The calls that differ in lane counts, sub_lane and widths, of at most
\* MaxDefs objects in all:
\*   both sides are ints;
\*   one side has objects inside the road, in road order, with a documented
\*     sub_lane and default widths, the other side is an int, an empty list
\*     or plain objects;
\*   one side has one object with explicit widths, the other side is an int,
\*     an empty list or one plain object;
\*   one side has one object with an undocumented sub_lane, the other side
\*     is an int or an empty list.
Init ==
    \/ \E n \in 0..MaxLanes, m \in 0..MaxLanes, end \in LaneWidthEnds :
          FirstCall(<<IntArg(n), IntArg(m)>>, end)
    \/ \E side \in {"right", "left"}, k \in 1..MaxDefs :
          \E x \in RoadListsOf(LaneDefs(side), k),
             o \in OtherSide(MaxDefs - k), end \in OtherWidthEnds :
             FirstCall(CallWith(side, ListArg(x), o), end)
    \/ \E side \in {"right", "left"} :
          \E d \in WidthDefs(side), o \in OtherSide(1),
             end \in LaneWidthEnds :
             FirstCall(CallWith(side, ListArg(<<d>>), o), end)
    \/ \E side \in {"right", "left"} :
          \E d \in BadSubDefs(side), o \in OtherSide(0),
             end \in OtherWidthEnds :
             FirstCall(CallWith(side, ListArg(<<d>>), o), end)

\* The calls that differ in their intervals: at most MaxDefs plain objects
\* anywhere, no lane_width_end.
InitIntervals ==
    \E kr \in 0..MaxDefs :
       \E kl \in 0..(MaxDefs - kr) :
          \E r \in AnywhereSide(kr), l \in AnywhereSide(kl) :
             FirstCall(<<r, l>>, None)

\* ------------------------------------------------- _create_lane_lists
\* Look (below) with a slip: an int argument of 0 counts as no int argument
\* (`if const_right_lanes:` without `or const_right_lanes == 0`)
LookZeroIsNone(objs, it, const) ==
    IF it < Len(objs)
    THEN IF objs[it + 1].s_start = present_s
         THEN [raises |-> FALSE, add |-> TRUE, next |-> 0, n_lanes |-> 0]
         ELSE [raises |-> FALSE, add |-> FALSE,
               next |-> objs[it + 1].s_start,
               n_lanes |-> objs[it + 1].n_lanes_start]
    ELSE IF ~IsNone(const) /\ Val(const) # 0
         THEN [raises |-> FALSE, add |-> FALSE, next |-> RoadLength,
               n_lanes |-> Val(const)]
    ELSE IF Len(objs) = 0
         THEN [raises |-> TRUE, add |-> FALSE, next |-> 0, n_lanes |-> 0]
    ELSE [raises |-> FALSE, add |-> FALSE, next |-> RoadLength,
          n_lanes |-> objs[Len(objs)].n_lanes_end]

\* Lines 634-649 (651-666 for the left side): what one pass of the loop
\* finds for a side with argument list objs, cursor it and int argument
\* const.  raises: right[-1] of an empty list.
Look(objs, it, const) ==
    IF it < Len(objs)
    THEN IF objs[it + 1].s_start = present_s
         THEN [raises |-> FALSE, add |-> TRUE, next |-> 0, n_lanes |-> 0]
         ELSE [raises |-> FALSE, add |-> FALSE,
               next |-> objs[it + 1].s_start,
               n_lanes |-> objs[it + 1].n_lanes_start]
    ELSE IF ~IsNone(const)
         THEN [raises |-> FALSE, add |-> FALSE, next |-> RoadLength,
               n_lanes |-> Val(const)]
    ELSE IF Len(objs) = 0
         THEN [raises |-> TRUE, add |-> FALSE, next |-> 0, n_lanes |-> 0]
    ELSE [raises |-> FALSE, add |-> FALSE, next |-> RoadLength,
          n_lanes |-> objs[Len(objs)].n_lanes_end]

LookRight == Look(right, r_it, const_right_lanes)
LookLeft == Look(left, l_it, const_left_lanes)

\* Lines 672-714 (715-756 for the left side): the LaneDef put on a side
\* on which no object starts, while none starts on the other side either
FillerWidths(objs, it, const, n_lanes) ==
    IF ~IsNone(const) THEN Repeat(LaneWidth, n_lanes)
    ELSE IF it = Len(objs)
         THEN IF objs[it].lane_end_widths # << >>
              THEN objs[it].lane_end_widths
              ELSE Repeat(LaneWidth, n_lanes)
    ELSE IF objs[it + 1].lane_start_widths # << >>
         THEN objs[it + 1].lane_start_widths
    ELSE Repeat(LaneWidth, n_lanes)

\* Filler with a slip: every new LaneDef runs to the end of the road
FillerToRoadEnd(objs, it, const, n_lanes, s_end) ==
    LET w == FillerWidths(objs, it, const, n_lanes)
    IN  LaneDefInit(present_s, RoadLength, n_lanes, n_lanes, None, w, w)

Filler(objs, it, const, n_lanes, s_end) ==
    LET w == FillerWidths(objs, it, const, n_lanes)
    IN  LaneDefInit(present_s, s_end, n_lanes, n_lanes, None, w, w)

\* Lines 772-785 and 792-805: the LaneDef put on the side on which no
\* object starts, beside an object of the other side
DefaultFiller(n_lanes, s_end) ==
    LaneDefInit(present_s, s_end, n_lanes, n_lanes, None,
                Repeat(LaneWidth, n_lanes), Repeat(LaneWidth, n_lanes))

\* the i-th object (0-based) of a list after _check_lane_widths
Checked(objs, it) ==
    [objs EXCEPT ![it + 1] = CheckLaneWidths(@, LaneWidth)]

InSweep == pc = "sweep" /\ present_s < RoadLength

\* Lines 649, 666: right[-1] or left[-1] of an empty list
SweepRaise ==
    /\ InSweep
    /\ LookRight.raises \/ LookLeft.raises
    /\ pc' = "raised"
    /\ exc' = "IndexError"
    /\ iterations' = iterations + 1
    /\ UNCHANGED <<right, left, args, builds, before_right, before_left,
                   present_s, r_it, l_it, retlanes_right, retlanes_left,
                   lanesections, links, lanes>>

\* Lines 669-758: no object starts here on either side
SweepFill ==
    /\ InSweep
    /\ ~LookRight.raises /\ ~LookLeft.raises
    /\ ~LookLeft.add /\ ~LookRight.add
    /\ LET s_end == Min(LookLeft.next, LookRight.next)
       IN  /\ retlanes_right' = Append(retlanes_right,
                  New(Filler(right, r_it, const_right_lanes,
                             LookRight.n_lanes, s_end)))
           /\ retlanes_left' = Append(retlanes_left,
                  New(Filler(left, l_it, const_left_lanes,
                             LookLeft.n_lanes, s_end)))
           /\ present_s' = s_end
    /\ iterations' = iterations + 1
    /\ UNCHANGED <<right, left, args, builds, before_right, before_left,
                   pc, exc, r_it, l_it, lanesections, links, lanes>>

\* Lines 759-767: an object starts here on both sides
SweepBoth ==
    /\ InSweep
    /\ ~LookRight.raises /\ ~LookLeft.raises
    /\ LookLeft.add /\ LookRight.add
    /\ left' = Checked(left, l_it)
    /\ right' = Checked(right, r_it)
    /\ retlanes_left' = Append(retlanes_left, Ref(l_it + 1))
    /\ retlanes_right' = Append(retlanes_right, Ref(r_it + 1))
    /\ present_s' = left[l_it + 1].s_end
    /\ r_it' = r_it + 1
    /\ l_it' = l_it + 1
    /\ iterations' = iterations + 1
    /\ UNCHANGED <<args, builds, before_right, before_left, pc, exc,
                   lanesections, links, lanes>>

\* SweepRight with a slip: r_it is not advanced
SweepRightStuck ==
    /\ InSweep
    /\ ~LookRight.raises /\ ~LookLeft.raises
    /\ LookRight.add /\ ~LookLeft.add
    /\ right' = Checked(right, r_it)
    /\ retlanes_right' = Append(retlanes_right, Ref(r_it + 1))
    /\ retlanes_left' = Append(retlanes_left,
           New(DefaultFiller(LookLeft.n_lanes, right[r_it + 1].s_end)))
    /\ present_s' = right[r_it + 1].s_end
    /\ iterations' = iterations + 1
    /\ UNCHANGED <<left, args, builds, before_right, before_left, pc, exc,
                   r_it, l_it, lanesections, links, lanes>>

\* Lines 768-787: an object starts here on the right side only
SweepRight ==
    /\ InSweep
    /\ ~LookRight.raises /\ ~LookLeft.raises
    /\ LookRight.add /\ ~LookLeft.add
    /\ right' = Checked(right, r_it)
    /\ retlanes_right' = Append(retlanes_right, Ref(r_it + 1))
    /\ retlanes_left' = Append(retlanes_left,
           New(DefaultFiller(LookLeft.n_lanes, right[r_it + 1].s_end)))
    /\ present_s' = right[r_it + 1].s_end
    /\ r_it' = r_it + 1
    /\ iterations' = iterations + 1
    /\ UNCHANGED <<left, args, builds, before_right, before_left, pc, exc,
                   l_it, lanesections, links, lanes>>

\* Lines 788-807: an object starts here on the left side only
SweepLeft ==
    /\ InSweep
    /\ ~LookRight.raises /\ ~LookLeft.raises
    /\ LookLeft.add /\ ~LookRight.add
    /\ left' = Checked(left, l_it)
    /\ retlanes_left' = Append(retlanes_left, Ref(l_it + 1))
    /\ retlanes_right' = Append(retlanes_right,
           New(DefaultFiller(LookRight.n_lanes, left[l_it + 1].s_end)))
    /\ present_s' = left[l_it + 1].s_end
    /\ l_it' = l_it + 1
    /\ iterations' = iterations + 1
    /\ UNCHANGED <<right, args, builds, before_right, before_left, pc, exc,
                   r_it, lanesections, links, lanes>>

\* x._adjust_lane_widths() for every entry x of a result list, in order
RECURSIVE AdjustAll(_, _, _)
AdjustAll(ret, objs, k) ==
    IF k > Len(ret) THEN [ret |-> ret, objs |-> objs]
    ELSE IF ret[k].ref = 0
         THEN AdjustAll([ret EXCEPT ![k] = New(AdjustLaneWidths(@.def))],
                        objs, k + 1)
    ELSE AdjustAll(ret,
                   [objs EXCEPT ![ret[k].ref] = AdjustLaneWidths(@)], k + 1)

\* Lines 633, 808-810: the loop ends, every entry is adjusted, the lists
\* are returned to create_lanes_merge_split (line 207)
SweepEnd ==
    /\ pc = "sweep"
    /\ ~(present_s < RoadLength)
    /\ LET r == AdjustAll(retlanes_right, right, 1)
           l == AdjustAll(retlanes_left, left, 1)
       IN  /\ retlanes_right' = r.ret
           /\ right' = r.objs
           /\ retlanes_left' = l.ret
           /\ left' = l.objs
    /\ pc' = "sections"
    /\ UNCHANGED <<args, builds, before_right, before_left, exc, present_s,
                   r_it, l_it, iterations, lanesections, links, lanes>>

\* ------------------------------------------- create_lanes_merge_split
\* list[i] for a Python index i >= 0
HasIndex(l, i) == i < Len(l)

\* utils.get_coeffs_for_poly3(length, lane_offset, zero_start,
\* lane_width_end): the cubic from lane_offset to lane_width_end over
\* length, an error for a length that is not positive.  zero_start does not
\* change the result when lane_width_end is given, as in every call here.
get_coeffs_for_poly3(length, lane_offset, zero_start, end_width) ==
    IF length <= 0 THEN [exc |-> "SolverError"]
    ELSE [exc |-> "", a |-> lane_offset, at_end |-> end_width]

\* Lane(a=coeff[0], ...) with its road mark: the width at the start of the
\* section (a), the width at its end, and the branch that made it
LaneOf(coeff, rm, branch) ==
    IF coeff.exc # "" THEN [exc |-> coeff.exc]
    ELSE [exc |-> "",
          lane |-> [a |-> coeff.a, at_end |-> coeff.at_end,
                    roadmark |-> rm, branch |-> branch]]

\* RoadMarkOf with a slip: the outermost lane is taken from n_lanes_end
RoadMarkOfEnd(d, i) ==
    IF i = d.n_lanes_end - 1 THEN "solid" ELSE "broken"

\* Lines 221-230, 297-304: solid for the outermost lane, broken otherwise
RoadMarkOf(d, i) ==
    IF i = Max(d.n_lanes_start, d.n_lanes_end) - 1 THEN "solid" ELSE "broken"

\* Lines 238-247, 253-262, 277-286: the lane from lane_start_widths[i] to
\* lane_end_widths[i]
LaneFromWidths(d, i, zero_start, branch) ==
    IF ~HasIndex(d.lane_start_widths, i) \/ ~HasIndex(d.lane_end_widths, i)
    THEN [exc |-> "IndexError"]
    ELSE LaneOf(get_coeffs_for_poly3(d.s_end - d.s_start,
                                     d.lane_start_widths[i + 1], zero_start,
                                     d.lane_end_widths[i + 1]),
                RoadMarkOf(d, i), branch)

\* Lines 263-290, 333-355: the lane of a position that is not the changed one
LaneUnchanged(d, i) ==
    IF ~IsNone(lane_width_end) /\ LaneWidth # Val(lane_width_end)
    THEN LaneOf(get_coeffs_for_poly3(d.s_end - d.s_start, LaneWidth, FALSE,
                                     Val(lane_width_end)),
                RoadMarkOf(d, i), "lane_width_end")
    ELSE IF d.lane_start_widths # << >>
    THEN LaneFromWidths(d, i, FALSE, "widths")
    ELSE [exc |-> "",
          lane |-> [a |-> LaneWidth, at_end |-> LaneWidth,
                    roadmark |-> RoadMarkOf(d, i), branch |-> "lane_width"]]

\* Lines 220-289: right lane i (0-based) of the section of d
RightLane(d, i) ==
    IF d.n_lanes_start > d.n_lanes_end
    THEN IF IsNone(d.sub_lane) THEN [exc |-> "TypeError"]
         ELSE IF i = Abs(Val(d.sub_lane)) - 1
              THEN LaneFromWidths(d, i, FALSE, "merge")
         ELSE LaneUnchanged(d, i)
    ELSE IF d.n_lanes_start < d.n_lanes_end
    THEN IF IsNone(d.sub_lane) THEN [exc |-> "TypeError"]
         ELSE IF i = Abs(Val(d.sub_lane)) - 1
              THEN LaneFromWidths(d, i, TRUE, "split")
         ELSE LaneUnchanged(d, i)
    ELSE LaneUnchanged(d, i)

\* Lines 296-355: left lane i (0-based) of the section of d
LeftLane(d, i) ==
    IF d.n_lanes_start < d.n_lanes_end
    THEN IF IsNone(d.sub_lane) THEN [exc |-> "TypeError"]
         ELSE IF i = Val(d.sub_lane) - 1
              THEN LaneFromWidths(d, i, TRUE, "split")
         ELSE LaneUnchanged(d, i)
    ELSE IF d.n_lanes_start > d.n_lanes_end
    THEN IF IsNone(d.sub_lane) THEN [exc |-> "TypeError"]
         ELSE IF i = Val(d.sub_lane) - 1
              THEN LaneFromWidths(d, i, FALSE, "merge")
         ELSE LaneUnchanged(d, i)
    ELSE LaneUnchanged(d, i)

\* the exception of the first entry of a sequence of results that has one
FirstExc(results) ==
    IF \E k \in 1..Len(results) : results[k].exc # ""
    THEN results[CHOOSE k \in 1..Len(results) :
                    /\ results[k].exc # ""
                    /\ \A m \in 1..(k - 1) : results[m].exc = ""].exc
    ELSE ""

\* Lines 217-290 and 293-356: the lanes of one side of a section
RightLanes(d) ==
    [k \in 1..Max(d.n_lanes_start, d.n_lanes_end) |-> RightLane(d, k - 1)]
LeftLanes(d) ==
    [k \in 1..Max(d.n_lanes_start, d.n_lanes_end) |-> LeftLane(d, k - 1)]

\* Lines 213-358: the LaneSection of interval ls (1-based here), or the
\* exception its first failing lane raises
SectionOf(ls) ==
    LET rl == RightLanes(right_lane(ls))
        ll == LeftLanes(left_lane(ls))
    IN  IF FirstExc(rl \o ll) # "" THEN [exc |-> FirstExc(rl \o ll)]
        ELSE [exc |-> "",
              section |-> [s |-> left_lane(ls).s_start,
                           rightlanes |-> [k \in 1..Len(rl) |-> rl[k].lane],
                           leftlanes |-> [k \in 1..Len(ll) |-> ll[k].lane]]]

\* Lines 212-358: the loop over the intervals
BuildSections ==
    /\ pc = "sections"
    /\ LET built == [ls \in 1..Len(retlanes_left) |-> SectionOf(ls)]
       IN  IF FirstExc(built) # ""
           THEN /\ pc' = "raised"
                /\ exc' = FirstExc(built)
                /\ UNCHANGED lanesections
           ELSE /\ lanesections' =
                       [ls \in 1..Len(built) |-> built[ls].section]
                /\ pc' = "link"
                /\ UNCHANGED exc
    /\ UNCHANGED <<right, left, args, builds, before_right, before_left,
                   present_s, r_it, l_it, iterations, retlanes_right,
                   retlanes_left, links, lanes>>

\* ------------------------------------------------------------ lane linker
\* list[i] for a Python index i that may be negative: the 0-based position
\* read, or -1 for an IndexError
PyIndex(l, i) ==
    LET k == IF i < 0 THEN i + Len(l) ELSE i
    IN  IF 0 <= k /\ k < Len(l) THEN k ELSE 0 - 1

\* Lines 363-398: for the boundary before section cur of the right side, the
\* pairs <<index into the rightlanes of the section before, index into the
\* rightlanes of cur>> handed to add_link for j = 0, 1, ...; << >> where no
\* link is added
RightPairs(prev, cur) ==
    IF cur.n_lanes_end > cur.n_lanes_start
    THEN IF IsNone(cur.sub_lane) THEN [exc |-> "TypeError"]
         ELSE [exc |-> "",
               pairs |-> [j1 \in 1..(prev.n_lanes_end + 1) |->
                   LET j == j1 - 1
                   IN  IF Val(cur.sub_lane) < 0 - (j + 1) THEN <<j, j>>
                       ELSE IF Val(cur.sub_lane) > 0 - (j + 1)
                            THEN <<j - 1, j>>
                       ELSE << >>]]
    ELSE IF prev.n_lanes_end < prev.n_lanes_start
    THEN IF IsNone(prev.sub_lane) THEN [exc |-> "TypeError"]
         ELSE [exc |-> "",
               pairs |-> [j1 \in 1..(prev.n_lanes_end + 1) |->
                   LET j == j1 - 1
                   IN  IF Val(prev.sub_lane) < 0 - (j + 1) THEN <<j, j>>
                       ELSE IF Val(prev.sub_lane) > 0 - (j + 1)
                            THEN <<j, j - 1>>
                       ELSE << >>]]
    ELSE [exc |-> "",
          pairs |-> [j1 \in 1..prev.n_lanes_end |-> <<j1 - 1, j1 - 1>>]]

\* Lines 401-436: the same for the left side
LeftPairs(prev, cur) ==
    IF cur.n_lanes_end > cur.n_lanes_start
    THEN IF IsNone(cur.sub_lane) THEN [exc |-> "TypeError"]
         ELSE [exc |-> "",
               pairs |-> [j1 \in 1..(prev.n_lanes_end + 1) |->
                   LET j == j1 - 1
                   IN  IF Val(cur.sub_lane) < j + 1 THEN <<j - 1, j>>
                       ELSE IF Val(cur.sub_lane) > j + 1 THEN <<j, j>>
                       ELSE << >>]]
    ELSE IF prev.n_lanes_end < prev.n_lanes_start
    THEN IF IsNone(prev.sub_lane) THEN [exc |-> "TypeError"]
         ELSE [exc |-> "",
               pairs |-> [j1 \in 1..(prev.n_lanes_end + 1) |->
                   LET j == j1 - 1
                   IN  IF Val(prev.sub_lane) < j + 1 THEN <<j, j - 1>>
                       ELSE IF Val(prev.sub_lane) > j + 1 THEN <<j, j>>
                       ELSE << >>]]
    ELSE [exc |-> "",
          pairs |-> [j1 \in 1..prev.n_lanes_end |-> <<j1 - 1, j1 - 1>>]]

\* lanelinker.add_link(lanesections[i - 1].<side>lanes[p],
\* lanesections[i].<side>lanes[s]) for every pair: the links of the boundary
\* before section i (0-based), each naming the lanes by their positions
LinksOfPairs(side, i, found, prevlanes, curlanes) ==
    IF found.exc # "" THEN [exc |-> found.exc]
    ELSE IF \E k \in 1..Len(found.pairs) :
               /\ found.pairs[k] # << >>
               /\ \/ PyIndex(prevlanes, found.pairs[k][1]) < 0
                  \/ PyIndex(curlanes, found.pairs[k][2]) < 0
         THEN [exc |-> "IndexError"]
    ELSE [exc |-> "",
          links |-> {[side |-> side, section |-> i,
                      pred |-> PyIndex(prevlanes, found.pairs[k][1]),
                      succ |-> PyIndex(curlanes, found.pairs[k][2])] :
                     k \in {m \in 1..Len(found.pairs) :
                               found.pairs[m] # << >>}}]

RightLinksAt(i) ==
    LinksOfPairs("right", i, RightPairs(right_lane(i), right_lane(i + 1)),
                 lanesections[i].rightlanes, lanesections[i + 1].rightlanes)
LeftLinksAt(i) ==
    LinksOfPairs("left", i, LeftPairs(left_lane(i), left_lane(i + 1)),
                 lanesections[i].leftlanes, lanesections[i + 1].leftlanes)

\* the loops of lines 362 and 400 from boundary i on: the links added, or
\* the exception of the first boundary that raises
RECURSIVE RightLinksFrom(_, _)
RightLinksFrom(i, n) ==
    IF i >= n THEN [exc |-> "", links |-> {}]
    ELSE LET here == RightLinksAt(i)
         IN  IF here.exc # "" THEN here
             ELSE LET rest == RightLinksFrom(i + 1, n)
                  IN  IF rest.exc # "" THEN rest
                      ELSE [exc |-> "", links |-> here.links \cup rest.links]

RECURSIVE LeftLinksFrom(_, _)
LeftLinksFrom(i, n) ==
    IF i >= n THEN [exc |-> "", links |-> {}]
    ELSE LET here == LeftLinksAt(i)
         IN  IF here.exc # "" THEN here
             ELSE LET rest == LeftLinksFrom(i + 1, n)
                  IN  IF rest.exc # "" THEN rest
                      ELSE [exc |-> "", links |-> here.links \cup rest.links]

\* Lines 361-442: the links of the right lanes, then those of the left
\* lanes, then the Lanes object with every section and the linker
LinkLanes ==
    /\ pc = "link"
    /\ LET r == RightLinksFrom(1, Len(retlanes_right))
           l == LeftLinksFrom(1, Len(retlanes_left))
       IN  IF r.exc # "" \/ l.exc # ""
           THEN /\ pc' = "raised"
                /\ exc' = IF r.exc # "" THEN r.exc ELSE l.exc
                /\ UNCHANGED <<links, lanes>>
           ELSE /\ links' = r.links \cup l.links
                /\ lanes' = Append(lanes, [lanesections |-> lanesections,
                                           links |-> r.links \cup l.links])
                /\ pc' = "done"
                /\ UNCHANGED exc
    /\ UNCHANGED <<right, left, args, builds, before_right, before_left,
                   present_s, r_it, l_it, iterations, retlanes_right,
                   retlanes_left, lanesections>>

\* The caller calls create_lanes_merge_split again with the same objects
\* and arguments
CallAgain ==
    /\ pc \in {"done", "raised"}
    /\ builds < MaxBuilds
    /\ builds' = builds + 1
    /\ before_right' = right
    /\ before_left' = left
    /\ Begin
    /\ UNCHANGED <<right, left, args, lanes>>

Next ==
    \/ SweepRaise
    \/ SweepFill
    \/ SweepBoth
    \/ SweepRight
    \/ SweepLeft
    \/ SweepEnd
    \/ BuildSections
    \/ LinkLanes
    \/ CallAgain

\* calls that differ in lane counts, sub_lane and widths
Spec == Init /\ [][Next]_vars

\* calls that differ in their intervals
SpecIntervals == InitIntervals /\ [][Next]_vars

\* ================================================================ claims
\* _create_lane_lists has returned its two lists in this call
Expanded == pc \in {"sections", "link", "done"}

\* the intervals of a result list
Spans(ret, objs) ==
    [k \in 1..Len(ret) |-> <<Deref(ret[k], objs).s_start,
                             Deref(ret[k], objs).s_end>>]

\* a list of intervals that tiles [0, road_length]: none empty or reversed,
\* the first from 0, each from where the one before ended, the last to the
\* end of the road
Tiles(spans) ==
    /\ Len(spans) > 0
    /\ \A k \in 1..Len(spans) : spans[k][1] < spans[k][2]
    /\ spans[1][1] = 0
    /\ \A k \in 1..(Len(spans) - 1) : spans[k][2] = spans[k + 1][1]
    /\ spans[Len(spans)][2] = RoadLength

\* the two result lists have the same intervals, which tile the road
Tiled ==
    /\ Spans(retlanes_right, right) = Spans(retlanes_left, left)
    /\ Tiles(Spans(retlanes_right, right))

\* an argument list as the claims call valid: every LaneDef inside
\* [0, road_length] with s_start < s_end, in order and without overlap
ValidList(l) ==
    /\ \A k \in 1..Len(l) :
          0 <= l[k].s_start /\ l[k].s_start < l[k].s_end
          /\ l[k].s_end <= RoadLength
    /\ InOrder(l)
ValidIntervals == ValidList(right) /\ ValidList(left)

\* every right and left LaneDef cover the same interval or do not overlap
SidesAligned ==
    \A r \in 1..Len(right), l \in 1..Len(left) :
       \/ right[r].s_start = left[l].s_start /\ right[r].s_end = left[l].s_end
       \/ right[r].s_end <= left[l].s_start
       \/ left[l].s_end <= right[r].s_start

\* C1 as stated: for every valid input the two lists returned by
\* _create_lane_lists have the same intervals, and these tile
\* [0, road_length] without gap or overlap.
C1_TiledForValid == (Expanded /\ ValidIntervals) => Tiled

\* no list argument is empty
NoEmptyList ==
    /\ IsNone(const_right_lanes) => Len(right) > 0
    /\ IsNone(const_left_lanes) => Len(left) > 0

\* C1 amended: for the valid inputs without an empty list in which a right
\* and a left LaneDef that overlap cover the same interval,
\* _create_lane_lists does not raise, and the two lists it returns have the
\* same intervals, which tile [0, road_length] without gap or overlap.
C1_TiledForAligned ==
    (ValidIntervals /\ SidesAligned /\ NoEmptyList)
    => /\ pc = "raised" => present_s >= RoadLength
       /\ Expanded => Tiled

\* C1 witness: a tiled result for valid aligned input with objects on both
\* sides and a new LaneDef between or around them
C1_Witness ==
    /\ pc = "sections" /\ ValidIntervals /\ SidesAligned /\ Tiled
    /\ Len(right) >= 1 /\ Len(left) >= 1
    /\ Len(retlanes_right) >= 2

\* the largest number of passes of the while loop for the given lists
MostIterations == 2 * (Len(right) + Len(left)) + 1

InvalidIntervals == ~ValidIntervals

\* C6 as stated: a call with an empty or reversed interval, with objects out
\* of order or overlapping on one side, or with an object that reaches past
\* the end of the road, raises and returns no Lanes object.
C6_InvalidRejected == InvalidIntervals => pc # "done"

\* the LaneDef objects of the two result lists
Timeline ==
    {right_lane(k) : k \in 1..Len(retlanes_right)}
    \cup {left_lane(k) : k \in 1..Len(retlanes_left)}

\* C2 as stated: after _create_lane_lists every LaneDef of its result lists
\* has n_lanes_start start widths and n_lanes_end end widths.
C2_WidthsMatchCounts ==
    Expanded => \A d \in Timeline :
                   /\ Len(d.lane_start_widths) = d.n_lanes_start
                   /\ Len(d.lane_end_widths) = d.n_lanes_end

\* the width lists of the objects of an argument list are empty or as long
\* as the docstring of LaneDef requires
DocumentedWidths(l) ==
    \A k \in 1..Len(l) :
       /\ Len(l[k].lane_start_widths) \in {0, l[k].n_lanes_start}
       /\ Len(l[k].lane_end_widths) \in {0, l[k].n_lanes_end}

\* a LaneDef whose shorter width list _adjust_lane_widths extends
Padded(d) ==
    /\ SubLaneSet(d)
    /\ d.n_lanes_start # d.n_lanes_end
    /\ d.n_lanes_start >= 1 /\ d.n_lanes_end >= 1

\* C2 amended: when the call begins with width lists that are empty or of
\* the documented lengths, every LaneDef of the result lists has
\* n_lanes_start start widths and n_lanes_end end widths, except that a
\* LaneDef whose lane count changes between counts >= 1 with a non-zero
\* sub_lane has max(n_lanes_start, n_lanes_end) widths in both lists.
C2_WidthsMatchCountsOrPadded ==
    (Expanded /\ DocumentedWidths(before_right)
              /\ DocumentedWidths(before_left))
    => \A d \in Timeline :
          IF Padded(d)
          THEN /\ Len(d.lane_start_widths)
                    = Max(d.n_lanes_start, d.n_lanes_end)
               /\ Len(d.lane_end_widths)
                    = Max(d.n_lanes_start, d.n_lanes_end)
          ELSE /\ Len(d.lane_start_widths) = d.n_lanes_start
               /\ Len(d.lane_end_widths) = d.n_lanes_end

\* C2 witness: the lists are returned with a merge and a split of the
\* caller, both extended, and a new LaneDef
C2_Witness ==
    /\ pc = "sections"
    /\ DocumentedWidths(before_right) /\ DocumentedWidths(before_left)
    /\ \E k \in 1..Len(right) :
          Padded(right[k]) /\ right[k].n_lanes_start > right[k].n_lanes_end
          /\ Len(right[k].lane_end_widths) = right[k].n_lanes_start
    /\ \E k \in 1..Len(right) :
          Padded(right[k]) /\ right[k].n_lanes_start < right[k].n_lanes_end
          /\ Len(right[k].lane_start_widths) = right[k].n_lanes_end
    /\ \E k \in 1..Len(retlanes_left) : retlanes_left[k].ref = 0

\* the sub_lane of d is a documented one for its side
GoodSubLane(side, d) ==
    d.sub_lane \in GoodSubLanes(side, <<d.n_lanes_start, d.n_lanes_end>>)

\* the lane that comes or goes in the section of d has width zero at the end
\* where it is absent
Vanishes(side, d, sidelanes) ==
    (d.n_lanes_start # d.n_lanes_end /\ GoodSubLane(side, d))
    => LET lane == sidelanes[Abs(Val(d.sub_lane))]
       IN  IF d.n_lanes_start > d.n_lanes_end
           THEN lane.at_end = 0
           ELSE lane.a = 0

\* C3 as stated: in every section whose lane count changes, the lane named
\* by sub_lane has width zero where it vanishes: a merging lane ends at
\* zero, a splitting lane starts at zero, with default and with explicit
\* width lists.
C3_ChangedLaneVanishes ==
    pc = "done"
    => \A ls \in 1..Len(lanesections) :
          /\ Vanishes("right", right_lane(ls), lanesections[ls].rightlanes)
          /\ Vanishes("left", left_lane(ls), lanesections[ls].leftlanes)

\* C4 as stated: whenever a call returns, no lane is the predecessor in two
\* links and no lane is the successor in two links.
C4_NoFanInOrOut ==
    pc = "done"
    => \A a \in links, b \in links :
          (a.side = b.side /\ a.section = b.section
             /\ (a.pred = b.pred \/ a.succ = b.succ))
          => a = b

\* a count change whose sub_lane is an int that is not a documented one:
\* 0, the sign of the other side, a magnitude past the outermost lane
OutOfRange(side, d) ==
    /\ d.n_lanes_start # d.n_lanes_end
    /\ ~IsNone(d.sub_lane)
    /\ ~GoodSubLane(side, d)

HasOutOfRange ==
    \/ \E k \in 1..Len(right) : OutOfRange("right", right[k])
    \/ \E k \in 1..Len(left) : OutOfRange("left", left[k])

\* C7 as stated: a call with a count change whose sub_lane is 0, has the
\* wrong sign or lies past the outermost lane never returns, and the
\* exception that ends it is an IndexError.
C7_OutOfRangeRaises ==
    HasOutOfRange => /\ pc # "done"
                     /\ pc = "raised" => exc = "IndexError"

\* exactly the outermost lane of a side is solid, the others are broken
SolidOutermost(sidelanes) ==
    /\ Cardinality({k \in 1..Len(sidelanes) :
                       sidelanes[k].roadmark = "solid"}) = 1
    /\ \A k \in 1..Len(sidelanes) :
          sidelanes[k].roadmark
             = IF k = Len(sidelanes) THEN "solid" ELSE "broken"

\* C8 as stated: in every section each side has exactly one solid lane, the
\* outermost (index max(n_lanes_start, n_lanes_end) - 1); all others are
\* broken.
C8_OneSolidPerSide ==
    \A ls \in 1..Len(lanesections) :
       /\ SolidOutermost(lanesections[ls].rightlanes)
       /\ SolidOutermost(lanesections[ls].leftlanes)

\* C8 amended: the same for each side that has a lane; the side has
\* max(n_lanes_start, n_lanes_end) lanes.
C8_OneSolidPerSideWithLanes ==
    \A ls \in 1..Len(lanesections) :
       /\ Len(lanesections[ls].rightlanes)
             = Max(right_lane(ls).n_lanes_start, right_lane(ls).n_lanes_end)
       /\ Len(lanesections[ls].leftlanes)
             = Max(left_lane(ls).n_lanes_start, left_lane(ls).n_lanes_end)
       /\ Len(lanesections[ls].rightlanes) >= 1
             => SolidOutermost(lanesections[ls].rightlanes)
       /\ Len(lanesections[ls].leftlanes) >= 1
             => SolidOutermost(lanesections[ls].leftlanes)

\* C8 witness: a call has returned sections among which a merge of two
\* right lanes into one and a side without lanes
C8_Witness ==
    /\ pc = "done"
    /\ \E ls \in 1..Len(lanesections) :
          /\ right_lane(ls).n_lanes_start = 2
          /\ right_lane(ls).n_lanes_end = 1
          /\ Len(lanesections[ls].rightlanes) = 2
          /\ Len(lanesections[ls].leftlanes) = 0

\* both arguments are ints
BothInt == ~IsNone(const_right_lanes) /\ ~IsNone(const_left_lanes)

\* n lanes, each from lane_width to end
LanesOfWidth(sidelanes, n, end) ==
    /\ Len(sidelanes) = n
    /\ \A k \in 1..n : sidelanes[k].a = LaneWidth /\ sidelanes[k].at_end = end

\* one section from 0 over the whole road with the given lane counts, every
\* lane from lane_width to end, and no link
OneSection(end) ==
    /\ Len(lanesections) = 1
    /\ lanesections[1].s = 0
    /\ Spans(retlanes_right, right) = << <<0, RoadLength>> >>
    /\ Spans(retlanes_left, left) = << <<0, RoadLength>> >>
    /\ LanesOfWidth(lanesections[1].rightlanes, Val(const_right_lanes), end)
    /\ LanesOfWidth(lanesections[1].leftlanes, Val(const_left_lanes), end)
    /\ links = {}

\* C9 as stated: with two int arguments the call returns one section that
\* starts at 0 and spans the road, with the given numbers of lanes, each of
\* constant width lane_width, and no link.
C9_IntsGiveOneConstantSection ==
    BothInt => /\ pc # "raised"
               /\ pc = "done" => OneSection(LaneWidth)

\* C9 amended: the same, except that with a lane_width_end that differs from
\* lane_width every lane goes from lane_width to lane_width_end.
C9_IntsGiveOneSection ==
    BothInt => /\ pc # "raised"
               /\ pc = "done" =>
                     OneSection(IF ~IsNone(lane_width_end)
                                   /\ Val(lane_width_end) # LaneWidth
                                THEN Val(lane_width_end) ELSE LaneWidth)

\* C9 witness: a call with two ints, MaxLanes right lanes and no left lane,
\* has returned
C9_Witness ==
    /\ pc = "done" /\ BothInt
    /\ Val(const_right_lanes) = MaxLanes /\ Val(const_left_lanes) = 0
    /\ Len(lanesections) = 1
    /\ Len(lanesections[1].rightlanes) = MaxLanes

\* C10 as stated: when a call returns, the LaneDef objects of the caller are
\* as they were when it began, and no LaneDef of the result lists is an
\* object of the caller.
C10_ArgumentsUntouched ==
    pc = "done"
    => /\ right = before_right
       /\ left = before_left
       /\ \A k \in 1..Len(retlanes_right) : retlanes_right[k].ref = 0
       /\ \A k \in 1..Len(retlanes_left) : retlanes_left[k].ref = 0

\* the last pass of the while loop took an object from both lists: both
\* result lists end with an object of the caller
BothConsumed ==
    /\ pc \in {"sweep", "sections"}
    /\ Len(retlanes_right) > 0 /\ Len(retlanes_left) > 0
    /\ retlanes_right[Len(retlanes_right)].ref # 0
    /\ retlanes_left[Len(retlanes_left)].ref # 0

\* C11 as stated: after a pass that takes an object from both lists,
\* present_s is the smaller of the two objects' s_end.
C11_BothAdvanceToMin ==
    BothConsumed => present_s = Min(left[l_it].s_end, right[r_it].s_end)

\* the end widths of an entry of a result list as they were before
\* _adjust_lane_widths inserted a zero in this call
UnpaddedEnd(e, before) ==
    IF e.ref = 0 THEN e.def.lane_end_widths
    ELSE CheckLaneWidths(before[e.ref], LaneWidth).lane_end_widths

\* every new LaneDef of a result list that is not the first of its list has
\* the end widths of the LaneDef before it as start and as end widths
Carried(ret, before) ==
    \A k \in 2..Len(ret) :
       ret[k].ref = 0
       => /\ ret[k].def.lane_start_widths = UnpaddedEnd(ret[k - 1], before)
          /\ ret[k].def.lane_end_widths = UnpaddedEnd(ret[k - 1], before)

\* C12 as stated: in the lists _create_lane_lists returns, every new LaneDef
\* that follows another on its side has the end widths of the one before it
\* (without the inserted zero) as its start and end widths, whether it was
\* made in a pass without objects or beside an object of the other side.
C12_FillersCarryWidths ==
    pc = "sections" =>
       Carried(retlanes_right, before_right)
       /\ Carried(retlanes_left, before_left)

\* the links of one side across the boundary after section k (1-based), as
\* pairs <<lane index in section k, lane index in section k + 1>>
LinksAfter(side, k) ==
    {<<l.pred, l.succ>> : l \in {x \in links : x.side = side /\ x.section = k}}

\* the timeline of a side
TimelineOf(side, k) == IF side = "right" THEN right_lane(k) ELSE left_lane(k)

\* the position, counted from the centre from 0, of the lane d adds or removes
ChangedAt(d) == Abs(Val(d.sub_lane)) - 1

IsMerge(side, d) == d.n_lanes_start > d.n_lanes_end /\ GoodSubLane(side, d)
IsSplit(side, d) == d.n_lanes_start < d.n_lanes_end /\ GoodSubLane(side, d)

\* the links the claims name after a merge d: straight below the removed
\* lane, one index down above it, none from it
MergeLinks(d) ==
    {<<j, j>> : j \in 0..(ChangedAt(d) - 1)}
    \cup {<<j, j - 1>> : j \in (ChangedAt(d) + 1)..(d.n_lanes_start - 1)}

\* the links the claims name before a split d: straight below the new lane,
\* from one index down above it, none to it
SplitLinks(d) ==
    {<<j, j>> : j \in 0..(ChangedAt(d) - 1)}
    \cup {<<j - 1, j>> : j \in (ChangedAt(d) + 1)..(d.n_lanes_end - 1)}

\* C13 as stated: when a call returns, across every boundary that follows a
\* merge on a side, whatever follows it, the removed lane has no successor,
\* the lanes below it are linked to the same index and the lanes above it
\* to one index lower.
C13_MergeLinks ==
    pc = "done"
    => \A side \in {"right", "left"}, k \in 1..(Len(lanesections) - 1) :
          IsMerge(side, TimelineOf(side, k))
          => LinksAfter(side, k) = MergeLinks(TimelineOf(side, k))

\* the lanes of the section of d that go on after it
Continuing(side, d) ==
    (0..(Max(d.n_lanes_start, d.n_lanes_end) - 1))
    \ (IF IsMerge(side, d) THEN {ChangedAt(d)} ELSE {})

\* C14 as stated: when a call returns, across every boundary before a split
\* on a side, the lanes below the new lane are linked from the same index,
\* the lanes above it from one index lower, the new lane from none, and
\* every lane that goes on is the predecessor in exactly one link.
C14_SplitLinks ==
    pc = "done"
    => \A side \in {"right", "left"}, k \in 1..(Len(lanesections) - 1) :
          IsSplit(side, TimelineOf(side, k + 1))
          => /\ LinksAfter(side, k) = SplitLinks(TimelineOf(side, k + 1))
             /\ \A j \in Continuing(side, TimelineOf(side, k)) :
                   Cardinality({l \in LinksAfter(side, k) : l[1] = j}) = 1

\* C14 without the boundaries that also follow a merge
SplitLinksAfterNoMerge ==
    pc = "done"
    => \A side \in {"right", "left"}, k \in 1..(Len(lanesections) - 1) :
          (IsSplit(side, TimelineOf(side, k + 1))
             /\ ~IsMerge(side, TimelineOf(side, k)))
          => /\ LinksAfter(side, k) = SplitLinks(TimelineOf(side, k + 1))
             /\ \A j \in Continuing(side, TimelineOf(side, k)) :
                   Cardinality({l \in LinksAfter(side, k) : l[1] = j}) = 1

\* C13 without the boundaries that are also followed by a split
MergeLinksBeforeNoSplit ==
    pc = "done"
    => \A side \in {"right", "left"}, k \in 1..(Len(lanesections) - 1) :
          (IsMerge(side, TimelineOf(side, k))
             /\ ~IsSplit(side, TimelineOf(side, k + 1)))
          => LinksAfter(side, k) = MergeLinks(TimelineOf(side, k))

\* ---------------------------------------------------------------- C15
\* the first of the five width cases that matches lane k (0-based) of the
\* section of d, with the lane that comes or goes at position
\* abs(sub_lane) - 1
FirstCase(d, k) ==
    IF d.n_lanes_start > d.n_lanes_end /\ k = ChangedAt(d) THEN "merge"
    ELSE IF d.n_lanes_start < d.n_lanes_end /\ k = ChangedAt(d) THEN "split"
    ELSE IF ~IsNone(lane_width_end) /\ Val(lane_width_end) # LaneWidth
    THEN "lane_width_end"
    ELSE IF d.lane_start_widths # << >> THEN "widths"
    ELSE "lane_width"

\* the widths at the two ends of lane k of the section of d under a case
CaseWidths(case, d, k) ==
    IF case = "lane_width_end" THEN <<LaneWidth, Val(lane_width_end)>>
    ELSE IF case = "lane_width" THEN <<LaneWidth, LaneWidth>>
    ELSE <<d.lane_start_widths[k + 1], d.lane_end_widths[k + 1]>>

\* lane k of a built section was made by the first matching case
ByFirstCase(d, sidelanes) ==
    \A k \in 0..(Len(sidelanes) - 1) :
       /\ sidelanes[k + 1].branch = FirstCase(d, k)
       /\ <<sidelanes[k + 1].a, sidelanes[k + 1].at_end>>
             = CaseWidths(FirstCase(d, k), d, k)

\* C15 as stated: every lane of every section is made by exactly one of the
\* five width cases, the first that matches: the merge or split profile at
\* position abs(sub_lane) - 1 of a section that changes count, else
\* lane_width to lane_width_end when that is given and differs, else
\* start_widths[k] to end_widths[k] when the descriptor has start widths,
\* else the constant lane_width.
C15_FirstCaseApplies ==
    pc = "done" =>
       \A ls \in 1..Len(lanesections) :
          /\ ByFirstCase(right_lane(ls), lanesections[ls].rightlanes)
          /\ ByFirstCase(left_lane(ls), lanesections[ls].leftlanes)

\* the same over the calls whose changed-lane indices are all in range
\* and of the sign of their side
FirstCaseAppliesInRange ==
    (pc = "done" /\ ~HasOutOfRange) =>
       \A ls \in 1..Len(lanesections) :
          /\ ByFirstCase(right_lane(ls), lanesections[ls].rightlanes)
          /\ ByFirstCase(left_lane(ls), lanesections[ls].leftlanes)

\* ---------------------------------------------------------------- C16
\* the second call in a row has ended
SecondEnded == builds = 2 /\ pc \in {"done", "raised"}

\* the second call ended as the first did: both returned, with the same
\* sections and links, or both raised
SameResult ==
    IF pc = "done" THEN Len(lanes) = 2 /\ lanes[2] = lanes[1]
    ELSE Len(lanes) = 0

\* the second call left the width lists of the objects as the first call
\* had left them
PaddedOnce == right = before_right /\ left = before_left

\* C16 as stated: a second call in a row with the same objects and
\* arguments ends as the first did, with the same section starts, the same
\* widths at both ends of every lane of every section and the same links,
\* and it pads no width list the first call had padded.
C16_SameResultTwice == SecondEnded => (SameResult /\ PaddedOnce)

\* the part of C16 about the padding alone
PaddedOnceOverBuilds == SecondEnded => PaddedOnce


====
